---- MODULE Spec2Model ----
(***************************************************************************)
(* Canonical Signed Digit (CSD) conversion, csdigit/csd.py, the repeated   *)
(* substring finder, csdigit/lcsre.py, and the Verilog generator,          *)
(* csdigit/csd_multiplier.py.                                              *)
(*                                                                         *)
(* Numbers.  Python's int is unbounded and Python's float is an IEEE-754   *)
(* binary64.  Both are modelled exactly as a sign and the finite set of    *)
(* the positions of the 1 bits of the magnitude: 5 is {0, 2}, 0.75 is      *)
(* {-1, -2}, 2^1024 is {1024}.  An int has no negative position; a float   *)
(* has at most MantBits consecutive positions, the highest at most MaxExp  *)
(* and the lowest at least MinPos.  Every float operation of the source is *)
(* the exact operation followed by FRound (round to nearest, ties to       *)
(* even); a result above the float range is the infinity, written as the   *)
(* magnitude {MaxExp + 1}.                                                 *)
(***************************************************************************)
EXTENDS Integers, Sequences, FiniteSets, TLC

\* ------------------------------------------------------------------------
\* Bounds of the checked input space
\* ------------------------------------------------------------------------
MaxN == 44          \* integer inputs range over -MaxN .. MaxN
MaxNnz == 3         \* non-zero budgets range over 0 .. MaxNnz
MaxPlaces == 4      \* places range over 0 .. MaxPlaces
MaxM == 40          \* fixed-point inputs are m/8 for m in -MaxM .. MaxM
MaxCsdLen == 3      \* decoded strings have up to MaxCsdLen characters
MaxStrLen == 5      \* searched strings have up to MaxStrLen characters
MaxPower == 2       \* max_power ranges over 0 .. MaxPower + 1
MaxWidth == 2       \* input_width ranges over 1 .. MaxWidth

\* ------------------------------------------------------------------------
\* IEEE-754 binary64 (Python float)
\* ------------------------------------------------------------------------
MantBits == 53
MaxExp == 1023
MinPos == -1074

\* ------------------------------------------------------------------------
\* Magnitudes: finite sets of bit positions
\* ------------------------------------------------------------------------
Max(S) == CHOOSE m \in S : \A x \in S : x <= m

Xor(a, b) == (a \ b) \cup (b \ a)

Shl(a, k) == {i + k : i \in a}

RECURSIVE MagAdd(_, _)
MagAdd(a, b) == IF b = {} THEN a ELSE MagAdd(Xor(a, b), Shl(a \cap b, 1))

\* a - b for a >= b
RECURSIVE MagSub(_, _)
MagSub(a, b) == IF b = {} THEN a ELSE MagSub(Xor(a, b), Shl(b \ a, 1))

MagLess(a, b) == a # b /\ Max(Xor(a, b)) \in b

\* the magnitude of a natural number below 2^31
MagOfNat(i) == {k \in 0..30 : (i \div (2^k)) % 2 = 1}

\* ------------------------------------------------------------------------
\* Signed numbers
\* ------------------------------------------------------------------------
Mk(neg, bits) == [neg |-> neg /\ bits # {}, bits |-> bits]

Zero == Mk(FALSE, {})

One == Mk(FALSE, {0})

Pow2(e) == Mk(FALSE, {e})

OfInt(i) == IF i < 0 THEN Mk(TRUE, MagOfNat(-i)) ELSE Mk(FALSE, MagOfNat(i))

Neg(x) == Mk(~x.neg, x.bits)

Abs(x) == Mk(FALSE, x.bits)

Add(x, y) ==
    IF x.neg = y.neg THEN Mk(x.neg, MagAdd(x.bits, y.bits))
    ELSE IF MagLess(x.bits, y.bits) THEN Mk(y.neg, MagSub(y.bits, x.bits))
    ELSE Mk(x.neg, MagSub(x.bits, y.bits))

Sub(x, y) == Add(x, Neg(y))

Less(x, y) ==
    IF x.neg # y.neg THEN x.neg
    ELSE IF x.neg THEN MagLess(y.bits, x.bits)
    ELSE MagLess(x.bits, y.bits)

\* x * 2^k, exactly
Scale(x, k) == Mk(x.neg, Shl(x.bits, k))

\* 3 * x, exactly
Times3(x) == Mk(x.neg, MagAdd(x.bits, Shl(x.bits, 1)))

\* x >> 1 on an int (floor division by two of a non-negative int)
Shr1(x) == Mk(x.neg, {i - 1 : i \in {j \in x.bits : j >= 1}})

\* x << 1 on an int
Shl1(x) == Scale(x, 1)

\* ------------------------------------------------------------------------
\* Float arithmetic
\* ------------------------------------------------------------------------
\* the nearest float to the exact value x (ties to even); the infinity when
\* the rounded magnitude exceeds the float range
FRound(x) ==
    IF x.bits = {} THEN x
    ELSE LET top == Max(x.bits)
             low == IF top - (MantBits - 1) < MinPos THEN MinPos
                    ELSE top - (MantBits - 1)
             kept == {i \in x.bits : i >= low}
             up == /\ (low - 1) \in x.bits
                   /\ ((\E i \in x.bits : i < low - 1) \/ low \in x.bits)
             r == IF up THEN MagAdd(kept, {low}) ELSE kept
         IN IF r # {} /\ Max(r) > MaxExp THEN Mk(x.neg, {MaxExp + 1})
            ELSE Mk(x.neg, r)

IsInf(x) == x.bits # {} /\ Max(x.bits) > MaxExp

\* float(n) for an int n; Python raises OverflowError when IsInf of it
IntToFloat(n) == FRound(n)

\* x * 1.5 and 1.5 * x
FMul15(x) == FRound(Scale(Times3(x), -1))

FAdd(x, y) == FRound(Add(x, y))

FSub(x, y) == FRound(Sub(x, y))

\* p / 2.0
FHalf(p) == FRound(Scale(p, -1))

\* ceil(log(x, 2)) for a finite float x >= 1.  math.log(x, 2) is the float
\* quotient log(x) / log(2): three roundings, so the float result is the
\* true logarithm within a relative error of 2^-51.  With E the position of
\* the leading bit and j the distance of x above 2^E in units of the last
\* place, the result can fall on the other side of the integer E when
\* j <= 2 ln(2) (E+1) (7/5 is taken for 2 ln 2), and on the other side of
\* E + 1 when x is within twice as many units below 2^(E+1); the platform
\* library decides which, so both outcomes are kept.
CeilLog2(x) ==
    LET E == Max(x.bits)
        j == Mk(FALSE, Shl(x.bits \ {E}, (MantBits - 1) - E))
        jd == Sub(Pow2(MantBits - 1), j)
        nearBelow == ~Less(OfInt((7 * (E + 1)) \div 5), j)
        nearAbove == ~Less(OfInt((14 * (E + 1)) \div 5), jd)
    IN IF j = Zero THEN (IF E = 0 THEN {E} ELSE {E, E + 1})
       ELSE IF nearBelow THEN {E, E + 1}
       ELSE IF nearAbove THEN {E + 1, E + 2}
       ELSE {E + 1}

\* ------------------------------------------------------------------------
\* to_csd_i
\* ------------------------------------------------------------------------
\* abs(decimal_value) * 1.5 raises OverflowError in the int-to-float
\* conversion, or yields the infinity, on which ceil raises OverflowError
StartRaisesI(decimal_value) ==
    \/ IsInf(IntToFloat(Abs(decimal_value)))
    \/ IsInf(FMul15(IntToFloat(Abs(decimal_value))))

\* the values ceil(log(abs(decimal_value) * 1.5, 2)) can take
StartRemI(decimal_value) == CeilLog2(FMul15(IntToFloat(Abs(decimal_value))))

\* one iteration of the while loop
CsdIBody(s) ==
    LET p2n_half == Shr1(s.p2n)
        det == Times3(s.decimal_value)
    IN IF Less(s.p2n, det)
       THEN [decimal_value |-> Sub(s.decimal_value, p2n_half),
             p2n |-> p2n_half, csd |-> Append(s.csd, "+")]
       ELSE IF Less(det, Neg(s.p2n))
       THEN [decimal_value |-> Add(s.decimal_value, p2n_half),
             p2n |-> p2n_half, csd |-> Append(s.csd, "-")]
       ELSE [decimal_value |-> s.decimal_value,
             p2n |-> p2n_half, csd |-> Append(s.csd, "0")]

RECURSIVE CsdILoop(_)
CsdILoop(s) == IF Less(One, s.p2n) THEN CsdILoop(CsdIBody(s)) ELSE s.csd

\* to_csd_i for a non-zero argument, given the value rem took
to_csd_i(decimal_value, rem) ==
    CsdILoop([decimal_value |-> decimal_value, p2n |-> Pow2(rem), csd |-> <<>>])

\* ------------------------------------------------------------------------
\* to_csdnnz_i
\* ------------------------------------------------------------------------
\* one iteration of the while loop
CsdnnzIBody(s) ==
    LET p2n_half == Shr1(s.p2n)
        det == Times3(s.decimal_value)
        digit == IF Less(s.p2n, det) THEN "+"
                 ELSE IF Less(det, Neg(s.p2n)) THEN "-" ELSE "0"
        value == IF digit = "+" THEN Sub(s.decimal_value, p2n_half)
                 ELSE IF digit = "-" THEN Add(s.decimal_value, p2n_half)
                 ELSE s.decimal_value
        nnz == IF digit = "0" THEN s.nnz ELSE s.nnz - 1
    IN [decimal_value |-> IF nnz = 0 THEN Zero ELSE value,
        p2n |-> p2n_half, csd |-> Append(s.csd, digit), nnz |-> nnz]

RECURSIVE CsdnnzILoop(_)
CsdnnzILoop(s) == IF Less(One, s.p2n) THEN CsdnnzILoop(CsdnnzIBody(s)) ELSE s.csd

\* to_csdnnz_i for a non-zero argument, given the value rem took
to_csdnnz_i(decimal_value, nnz, rem) ==
    CsdnnzILoop([decimal_value |-> decimal_value, p2n |-> Pow2(rem),
                 csd |-> <<>>, nnz |-> nnz])

\* ------------------------------------------------------------------------
\* to_csd
\* ------------------------------------------------------------------------
\* absnum * 1.5 is the infinity, on which ceil raises OverflowError
StartRaisesF(decimal_value) ==
    ~Less(Abs(decimal_value), One) /\ IsInf(FMul15(Abs(decimal_value)))

\* the values rem can start with
StartRemF(decimal_value) ==
    IF Less(Abs(decimal_value), One) THEN {0}
    ELSE CeilLog2(FMul15(Abs(decimal_value)))

\* one iteration of the while loop of loop_fn
CsdBody(s) ==
    LET rem == s.rem - 1
        p2n == FHalf(s.p2n)
        det == FMul15(s.decimal_value)
    IN IF Less(p2n, det)
       THEN [decimal_value |-> FSub(s.decimal_value, p2n), rem |-> rem,
             p2n |-> p2n, csd |-> Append(s.csd, "+")]
       ELSE IF Less(det, Neg(p2n))
       THEN [decimal_value |-> FAdd(s.decimal_value, p2n), rem |-> rem,
             p2n |-> p2n, csd |-> Append(s.csd, "-")]
       ELSE [decimal_value |-> s.decimal_value, rem |-> rem,
             p2n |-> p2n, csd |-> Append(s.csd, "0")]

RECURSIVE loop_fn(_, _)
loop_fn(value, s) == IF s.rem > value THEN loop_fn(value, CsdBody(s)) ELSE s

\* to_csd given the value rem took, rem <= MaxExp (pow(2.0, rem) raises
\* OverflowError above)
to_csd(decimal_value, places, rem) ==
    LET s0 == [decimal_value |-> decimal_value, rem |-> rem, p2n |-> Pow2(rem),
               csd |-> IF Less(Abs(decimal_value), One) THEN <<"0">> ELSE <<>>]
        s1 == loop_fn(0, s0)
        s2 == loop_fn(-places, [s1 EXCEPT !.csd = Append(s1.csd, ".")])
    IN s2.csd

\* ------------------------------------------------------------------------
\* to_csdnnz
\* ------------------------------------------------------------------------
\* the float 1e-100
Tiny ==
    Mk(FALSE, {-333, -334, -336, -337, -338, -339, -340, -341, -342, -343,
               -344, -345, -348, -350, -351, -352, -354, -355, -356, -359,
               -362, -366, -367, -368, -375, -377, -380, -381})

CsdnnzGoesOn(s) ==
    s.rem > 0 \/ (s.nnz > 0 /\ Less(Tiny, Abs(s.decimal_value)))

\* one iteration of the while loop; p2n / 2 of the first iteration divides
\* an int and raises OverflowError when the quotient is no float
CsdnnzBody(s) ==
    LET csd0 == IF s.rem = 0 THEN Append(s.csd, ".") ELSE s.csd
        p2n == FHalf(s.p2n)
        det == FMul15(s.decimal_value)
        digit == IF Less(p2n, det) THEN "+"
                 ELSE IF Less(det, Neg(p2n)) THEN "-" ELSE "0"
        value == IF digit = "+" THEN FSub(s.decimal_value, p2n)
                 ELSE IF digit = "-" THEN FAdd(s.decimal_value, p2n)
                 ELSE s.decimal_value
        nnz == IF digit = "0" THEN s.nnz ELSE s.nnz - 1
    IN IF IsInf(p2n) THEN [s EXCEPT !.exc = "OverflowError"]
       ELSE [decimal_value |-> IF nnz = 0 THEN Zero ELSE value,
             rem |-> s.rem - 1, p2n |-> p2n, csd |-> Append(csd0, digit),
             nnz |-> nnz, exc |-> "none"]

RECURSIVE CsdnnzLoop(_)
CsdnnzLoop(s) ==
    IF s.exc = "none" /\ CsdnnzGoesOn(s) THEN CsdnnzLoop(CsdnnzBody(s)) ELSE s

\* to_csdnnz given the value rem took: [exc, csd]
to_csdnnz(decimal_value, nnz, rem) ==
    LET s == CsdnnzLoop([decimal_value |-> decimal_value, rem |-> rem,
                         p2n |-> Pow2(rem), nnz |-> nnz, exc |-> "none",
                         csd |-> IF Less(Abs(decimal_value), One)
                                 THEN <<"0">> ELSE <<>>])
    IN [exc |-> s.exc, csd |-> s.csd]

\* ------------------------------------------------------------------------
\* Decoders
\* ------------------------------------------------------------------------
\* to_decimal_integral as an integer-only decoder would be: the radix point
\* is one more character that is no digit
IntegralBodyRejectsPoint(csd, s) ==
    LET digit == csd[s.pos]
        next(v) == [s EXCEPT !.pos = s.pos + 1, !.decimal_value = v]
    IN IF digit = "0" THEN next(Shl1(s.decimal_value))
       ELSE IF digit = "+" THEN next(Add(Shl1(s.decimal_value), One))
       ELSE IF digit = "-" THEN next(Sub(Shl1(s.decimal_value), One))
       ELSE [s EXCEPT !.exc = "ValueError", !.done = TRUE]

\* to_decimal_integral, one iteration of the for loop on the state
\* [pos, decimal_value, exc, loc, done]
IntegralBody(csd, s) ==
    LET digit == csd[s.pos]
        next(v) == [s EXCEPT !.pos = s.pos + 1, !.decimal_value = v]
    IN IF digit = "0" THEN next(Shl1(s.decimal_value))
       ELSE IF digit = "+" THEN next(Add(Shl1(s.decimal_value), One))
       ELSE IF digit = "-" THEN next(Sub(Shl1(s.decimal_value), One))
       ELSE IF digit = "." THEN [s EXCEPT !.loc = s.pos, !.done = TRUE]
       ELSE [s EXCEPT !.exc = "ValueError", !.done = TRUE]

RECURSIVE IntegralLoop(_, _)
IntegralLoop(csd, s) ==
    IF s.done \/ s.pos > Len(csd) THEN s
    ELSE IntegralLoop(csd, IntegralBody(csd, s))

\* to_decimal_integral: [exc, value, loc], loc the index after the first
\* "." (0 when there is none); "ValueError" on a character that is no digit
to_decimal_integral(csd) ==
    LET s == IntegralLoop(csd, [pos |-> 1, decimal_value |-> Zero,
                                exc |-> "none", loc |-> 0, done |-> FALSE])
    IN [exc |-> s.exc, value |-> s.decimal_value, loc |-> s.loc]

\* to_decimal_fractional, one iteration of the for loop on the state
\* [pos, decimal_value, scale, exc]
FractionalBody(csd, s) ==
    LET digit == csd[s.pos]
        next(v) == [s EXCEPT !.pos = s.pos + 1, !.decimal_value = v,
                             !.scale = FHalf(s.scale)]
    IN IF digit = "0" THEN next(s.decimal_value)
       ELSE IF digit = "+" THEN next(FAdd(s.decimal_value, s.scale))
       ELSE IF digit = "-" THEN next(FSub(s.decimal_value, s.scale))
       ELSE [s EXCEPT !.exc = "ValueError"]

RECURSIVE FractionalLoop(_, _)
FractionalLoop(csd, s) ==
    IF s.exc # "none" \/ s.pos > Len(csd) THEN s
    ELSE FractionalLoop(csd, FractionalBody(csd, s))

\* to_decimal_fractional: [exc, value]
to_decimal_fractional(csd) ==
    LET s == FractionalLoop(csd, [pos |-> 1, decimal_value |-> Zero,
                                  scale |-> Pow2(-1), exc |-> "none"])
    IN [exc |-> s.exc, value |-> s.decimal_value]

\* to_decimal_using_pow, one iteration of the for loop on the state
\* [pos, decimal_value, loc, exc]
UsingPowBody(csd, s) ==
    LET digit == csd[s.pos]
        twice == FRound(Scale(s.decimal_value, 1))
        next(v) == [s EXCEPT !.pos = s.pos + 1, !.decimal_value = v]
    IN IF digit = "0" THEN next(twice)
       ELSE IF digit = "+" THEN next(FAdd(twice, One))
       ELSE IF digit = "-" THEN next(FSub(twice, One))
       ELSE IF digit = "." THEN [s EXCEPT !.pos = s.pos + 1, !.loc = s.pos]
       ELSE [s EXCEPT !.exc = "ValueError"]

RECURSIVE UsingPowLoop(_, _)
UsingPowLoop(csd, s) ==
    IF s.exc # "none" \/ s.pos > Len(csd) THEN s
    ELSE UsingPowLoop(csd, UsingPowBody(csd, s))

\* to_decimal_using_pow: [exc, value]; pow(2.0, k) raises OverflowError
\* for k > MaxExp
to_decimal_using_pow(csd) ==
    LET s == UsingPowLoop(csd, [pos |-> 1, decimal_value |-> Zero,
                                loc |-> 0, exc |-> "none"])
    IN IF s.exc # "none" THEN [exc |-> s.exc, value |-> Zero]
       ELSE IF s.loc = 0 THEN [exc |-> "none", value |-> s.decimal_value]
       ELSE IF Len(csd) - s.loc > MaxExp
       THEN [exc |-> "OverflowError", value |-> Zero]
       ELSE [exc |-> "none",
             value |-> FRound(Scale(s.decimal_value, s.loc - Len(csd)))]

\* to_decimal: [exc, value]; integral + fractional is an int plus a float
to_decimal(csd) ==
    LET i == to_decimal_integral(csd)
        f == to_decimal_fractional(SubSeq(csd, i.loc + 1, Len(csd)))
    IN IF i.exc # "none" THEN [exc |-> i.exc, value |-> Zero]
       ELSE IF i.loc = 0 THEN [exc |-> "none", value |-> i.value]
       ELSE IF f.exc # "none" THEN [exc |-> f.exc, value |-> Zero]
       ELSE IF IsInf(IntToFloat(i.value))
       THEN [exc |-> "OverflowError", value |-> Zero]
       ELSE [exc |-> "none", value |-> FAdd(IntToFloat(i.value), f.value)]

\* ------------------------------------------------------------------------
\* longest_repeated_substring (csdigit/lcsre.py)
\* ------------------------------------------------------------------------
\* the body of the inner loop with the overlap test dropped
LcsreBodyNoOverlapTest(csd_string, s) ==
    LET row_index == s.row_index
        col_index == s.col_index
        length == s.LCSRe[row_index - 1][col_index - 1] + 1
    IN IF csd_string[row_index] = csd_string[col_index]
       THEN [s EXCEPT !.LCSRe[row_index][col_index] = length,
                      !.result_length = IF length > @ THEN length ELSE @,
                      !.index = IF length > s.result_length /\ row_index > @
                                THEN row_index ELSE @]
       ELSE [s EXCEPT !.LCSRe[row_index][col_index] = 0]

\* the body of the inner loop with the overlap test off by one
LcsreBodyStrictOverlapTest(csd_string, s) ==
    LET row_index == s.row_index
        col_index == s.col_index
        length == s.LCSRe[row_index - 1][col_index - 1] + 1
    IN IF /\ csd_string[row_index] = csd_string[col_index]
          /\ length < col_index - row_index
       THEN [s EXCEPT !.LCSRe[row_index][col_index] = length,
                      !.result_length = IF length > @ THEN length ELSE @,
                      !.index = IF length > s.result_length /\ row_index > @
                                THEN row_index ELSE @]
       ELSE [s EXCEPT !.LCSRe[row_index][col_index] = 0]

\* the body of the inner loop with the index moved on an equal length too
LcsreBodyLaterReplaces(csd_string, s) ==
    LET row_index == s.row_index
        col_index == s.col_index
        length == s.LCSRe[row_index - 1][col_index - 1] + 1
    IN IF /\ csd_string[row_index] = csd_string[col_index]
          /\ s.LCSRe[row_index - 1][col_index - 1] < col_index - row_index
       THEN [s EXCEPT !.LCSRe[row_index][col_index] = length,
                      !.result_length = IF length > @ THEN length ELSE @,
                      !.index = IF length >= s.result_length /\ row_index > @
                                THEN row_index ELSE @]
       ELSE [s EXCEPT !.LCSRe[row_index][col_index] = 0]

\* the body of the inner loop on the state
\* [row_index, col_index, LCSRe, result_length, index]; csd_string[i] here
\* is csd_string[i - 1] of the source
LcsreBody(csd_string, s) ==
    LET row_index == s.row_index
        col_index == s.col_index
        length == s.LCSRe[row_index - 1][col_index - 1] + 1
    IN IF /\ csd_string[row_index] = csd_string[col_index]
          /\ s.LCSRe[row_index - 1][col_index - 1] < col_index - row_index
       THEN [s EXCEPT !.LCSRe[row_index][col_index] = length,
                      !.result_length = IF length > @ THEN length ELSE @,
                      !.index = IF length > s.result_length /\ row_index > @
                                THEN row_index ELSE @]
       ELSE [s EXCEPT !.LCSRe[row_index][col_index] = 0]

\* the two for loops: col_index runs over row_index + 1 .. len(csd_string)
\* for each row_index in 1 .. len(csd_string)
LcsreStep(csd_string, s) ==
    IF s.col_index < Len(csd_string)
    THEN [s EXCEPT !.col_index = @ + 1]
    ELSE [s EXCEPT !.row_index = @ + 1, !.col_index = s.row_index + 2]

RECURSIVE LcsreLoop(_, _)
LcsreLoop(csd_string, s) ==
    IF s.col_index > Len(csd_string) THEN s
    ELSE LcsreLoop(csd_string, LcsreStep(csd_string, LcsreBody(csd_string, s)))

\* the table, the result length and the index after the loops
LcsreTable(csd_string) ==
    LcsreLoop(csd_string,
              [row_index |-> 1, col_index |-> 2,
               LCSRe |-> [i \in 0..Len(csd_string) |->
                             [j \in 0..Len(csd_string) |-> 0]],
               result_length |-> 0, index |-> 0])

longest_repeated_substring(csd_string) ==
    LET s == LcsreTable(csd_string)
    IN IF s.result_length > 0
       THEN SubSeq(csd_string, s.index - s.result_length + 1, s.index)
       ELSE <<>>

\* ------------------------------------------------------------------------
\* generate_csd_multiplier (csdigit/csd_multiplier.py)
\* ------------------------------------------------------------------------
\* Text.  The source builds its text from f-strings.  A piece of text is
\* the f-string with {} for each replacement field, and the numbers that
\* fill the fields in order; a text is the sequence of its pieces.
Piece(text, nums) == [text |-> text, nums |-> nums]

\* the terms when a term is collected for every digit, '0' included
TermsOfEveryDigit(csd, max_power) ==
    [i \in 1..Len(csd) |->
        [power |-> max_power - (i - 1),
         operation |-> IF csd[i] = "-" THEN "sub" ELSE "add"]]

\* terms: (power, operation) of every non-zero digit, in string order;
\* index i here is index i - 1 of the source
Terms(csd, max_power) ==
    LET all == [i \in 1..Len(csd) |->
                   [power |-> max_power - (i - 1),
                    operation |-> IF csd[i] = "+" THEN "add"
                                  ELSE IF csd[i] = "-" THEN "sub"
                                  ELSE "none"]]
        IsTerm(t) == t.operation # "none"
    IN SelectSeq(all, IsTerm)

\* sorted(powers_needed, reverse=True)
RECURSIVE SortedReverse(_)
SortedReverse(S) ==
    IF S = {} THEN <<>> ELSE <<Max(S)>> \o SortedReverse(S \ {Max(S)})

HeaderText ==
    "\nmodule csd_multiplier (\n    input signed [{}:0] x,      // Input value\n    output signed [{}:0] result // Result of multiplication\n);"

WireText == "\n    wire signed [{}:0] x_shift{} = x <<< {};"

\* the shifted versions, empty when there is no term
ShiftedVersions(terms, input_width, max_power) ==
    IF Len(terms) > 0
    THEN LET powers_needed == {terms[i].power : i \in 1..Len(terms)}
             sorted == SortedReverse(powers_needed)
         IN <<Piece("\n\n    // Create shifted versions of input", <<>>)>> \o
            [i \in 1..Len(sorted) |->
                Piece(WireText,
                      <<input_width + max_power - 1, sorted[i], sorted[i]>>)]
    ELSE <<>>

\* expr with the first term carrying its sign
ExprWithSignedFirstTerm(terms) ==
    [i \in 1..Len(terms) |->
        IF i = 1 /\ terms[1].operation = "add"
        THEN Piece("x_shift{}", <<terms[1].power>>)
        ELSE IF i = 1 THEN Piece("-x_shift{}", <<terms[1].power>>)
        ELSE IF terms[i].operation = "add"
        THEN Piece(" + x_shift{}", <<terms[i].power>>)
        ELSE Piece(" - x_shift{}", <<terms[i].power>>)]

\* expr: the first term without its operation, the others with theirs
Expr(terms) ==
    [i \in 1..Len(terms) |->
        IF i = 1 THEN Piece("x_shift{}", <<terms[1].power>>)
        ELSE IF terms[i].operation = "add"
        THEN Piece(" + x_shift{}", <<terms[i].power>>)
        ELSE Piece(" - x_shift{}", <<terms[i].power>>)]

\* the computation
Computation(terms) ==
    <<Piece("\n\n    // CSD implementation", <<>>)>> \o
    (IF Len(terms) = 0 THEN <<Piece("\n    assign result = 0;", <<>>)>>
     ELSE <<Piece("\n    assign result = ", <<>>)>> \o Expr(terms) \o
          <<Piece(";", <<>>)>>)

NoMessage == Piece("", <<>>)

LengthMessage(csd, max_power) ==
    Piece("CSD length {} doesn't match max_power={} (should be max_power+1)",
          <<Len(csd), max_power>>)

CharacterMessage == Piece("CSD string can only contain '+', '-', or '0'", <<>>)

\* the validation with the two tests in the other order
ValidateCharactersFirst(csd, max_power) ==
    IF \E i \in 1..Len(csd) : csd[i] \notin {"+", "-", "0"}
    THEN [exc |-> "ValueError", message |-> CharacterMessage]
    ELSE IF Len(csd) # max_power + 1
    THEN [exc |-> "ValueError", message |-> LengthMessage(csd, max_power)]
    ELSE [exc |-> "none", message |-> NoMessage]

\* the validation: [exc, message]
Validate(csd, max_power) ==
    IF Len(csd) # max_power + 1
    THEN [exc |-> "ValueError", message |-> LengthMessage(csd, max_power)]
    ELSE IF \E i \in 1..Len(csd) : csd[i] \notin {"+", "-", "0"}
    THEN [exc |-> "ValueError", message |-> CharacterMessage]
    ELSE [exc |-> "none", message |-> NoMessage]

\* generate_csd_multiplier: [exc, message, verilog_code]
generate_csd_multiplier(csd, input_width, max_power) ==
    LET v == Validate(csd, max_power)
        terms == Terms(csd, max_power)
    IN IF v.exc # "none"
       THEN [exc |-> v.exc, message |-> v.message, verilog_code |-> <<>>]
       ELSE [exc |-> "none", message |-> NoMessage,
             verilog_code |->
                 <<Piece(HeaderText,
                         <<input_width - 1, input_width + max_power - 1>>)>> \o
                 ShiftedVersions(terms, input_width, max_power) \o
                 Computation(terms) \o
                 <<Piece("\nendmodule\n", <<>>)>>]

\* ------------------------------------------------------------------------
\* Inputs
\* ------------------------------------------------------------------------
\* (4^(k+1) - 1) / 3, the int with a 1 at every even position up to 2k
Thirds(k) == Mk(FALSE, {2 * i : i \in 0..k})

\* ints whose 1.5-fold is next to a power of two, and ints at the edge of
\* the float range
BigInts ==
    {Add(Thirds(24), One), Thirds(25), Pow2(MaxExp + 1), Neg(Pow2(MaxExp + 1)),
     Times3(Pow2(MaxExp - 1))}

IntInputs == {OfInt(i) : i \in -MaxN..MaxN} \cup BigInts

\* the float 0x1.5555555555555p+e, the float next below 2^(e+2) / 3
ThirdBelow(e) == Mk(FALSE, {e - 2 * i : i \in 0..((MantBits - 1) \div 2)})

\* the float next above it
ThirdAbove(e) == Add(ThirdBelow(e), Pow2(e - (MantBits - 1)))

\* the float 0.1
Tenth == FRound(Mk(FALSE, {-4 - 4 * i : i \in 0..14} \cup {-5 - 4 * i : i \in 0..14}))

\* floats that are no small multiple of 1/8: the two floats around 1/3,
\* 2/3, -2/3, the two floats around 8/3, the float above 512/3, 0.1, 0.9,
\* and 1.5 * 2^1023
FloatProbes ==
    {ThirdBelow(-2), ThirdAbove(-2), ThirdBelow(-1), Neg(ThirdBelow(-1)),
     ThirdBelow(1), ThirdAbove(1), ThirdAbove(7), Tenth, FSub(One, Tenth),
     Mk(FALSE, {MaxExp, MaxExp - 1})}

FloatInputs == {Scale(OfInt(m), -3) : m \in -MaxM..MaxM} \cup FloatProbes

\* the characters of the decoded strings: the digits, the radix point and
\* a character that is neither
CsdChars == {"+", "-", "0", ".", "X"}

\* '+', 53 times '0', '+': the 55 digits of 2^54 + 1
LongDigits == [i \in 1..(MantBits + 2) |-> IF i \in {1, MantBits + 2} THEN "+" ELSE "0"]

\* the strings the tests decode, and LongDigits
CsdProbes ==
    {<<"+", "0", "0", "-", "0", "0", ".", "+">>,
     <<"+", "X", "0", "-", "0", "0", ".", "+">>,
     <<"+", "0", "0", "-", "0", "0", ".", "+", "X">>,
     <<"+", "X", "0", "-", "X", "0", ".", "+", "X">>,
     <<"+", "0", "0", "-", "0", "0", ".", "+", "X", "0", "0", "+">>,
     <<"-", "0", ".", "0">>, <<"+", "0", ".", "-">>,
     LongDigits}

CsdInputs == UNION {[1..n -> CsdChars] : n \in 0..MaxCsdLen} \cup CsdProbes

\* the strings searched for a repeated substring: all strings of up to
\* MaxStrLen CSD digits, and the strings of the tests
StrInputs ==
    UNION {[1..n -> {"+", "-", "0"}] : n \in 0..MaxStrLen} \cup
    {<<"+", "-", "0", "0", "+", "-", "0", "0", "+", "-", "0", "0", "+", "-", "0">>,
     <<"b", "a", "n", "a", "n", "a">>,
     <<"a", "b", "c", "d", "e", "f", "g", "h">>}

\* the strings handed to generate_csd_multiplier: the digits and a
\* character that is none
MultiplierInputs == UNION {[1..n -> {"+", "-", "0", "1"}] : n \in 0..MaxPower + 1}

\* ------------------------------------------------------------------------
\* pycsd to_csd
\* ------------------------------------------------------------------------
\* fabs(number) * 3.0 / 2.0; inf / 2.0 is inf
PyScaled(number) ==
    LET tripled == FRound(Times3(Abs(number)))
    IN IF IsInf(tripled) THEN tripled ELSE FHalf(tripled)

\* ceil(log(inf, 2)) raises OverflowError
PyStartRaises(number) ==
    ~Less(Abs(number), One) /\ IsInf(PyScaled(number))

\* the values power can start with, before power -= 1
PyStartPower(number) ==
    IF Less(Abs(number), One) THEN {0} ELSE CeilLog2(PyScaled(number))

\* pow(2.0, power + 1) / 3.0: the quotient 2^(power + 1) / 3 is
\* 1.0101..01|0101.. * 2^(power - 1) and rounds down to 53 bits
PyLimit(power) == ThirdBelow(power - 1)

\* one iteration of the while loop
PyBody(s) ==
    LET limit == PyLimit(s.power)
        csd_digits == IF s.power = -1 THEN Append(s.csd_digits, ".")
                      ELSE s.csd_digits
    IN IF Less(limit, s.remainder)
       THEN [remainder |-> FSub(s.remainder, Pow2(s.power)),
             power |-> s.power - 1, csd_digits |-> Append(csd_digits, "+")]
       ELSE IF Less(s.remainder, Neg(limit))
       THEN [remainder |-> FAdd(s.remainder, Pow2(s.power)),
             power |-> s.power - 1, csd_digits |-> Append(csd_digits, "-")]
       ELSE [remainder |-> s.remainder,
             power |-> s.power - 1, csd_digits |-> Append(csd_digits, "0")]

RECURSIVE PyLoop(_, _)
PyLoop(places, s) == IF s.power >= -places THEN PyLoop(places, PyBody(s)) ELSE s

\* pycsd's to_csd given the value power took, power <= MaxExp
\* (pow(2.0, power) raises OverflowError above)
pycsd_to_csd(number, places, power) ==
    IF number = Zero THEN <<"0">>
    ELSE LET s == PyLoop(places, [remainder |-> number, power |-> power - 1,
                                  csd_digits |-> <<>>])
         IN IF Less(Abs(number), One) THEN <<"0">> \o s.csd_digits
            ELSE s.csd_digits

\* ------------------------------------------------------------------------
\* The calls
\* ------------------------------------------------------------------------
VARIABLES
    fn,             \* the function called, "none" before the call
    decimal_value,  \* the numeric argument of an encoder, the value a
                    \* decoder returns
    places,         \* the places argument of to_csd
    nnz,            \* the nnz argument of to_csdnnz and to_csdnnz_i
    csd,            \* the string an encoder returns, the string argument of
                    \* a decoder and of generate_csd_multiplier
    exc,            \* the exception raised, "none" when the call returned
    loc,            \* the location to_decimal_integral returns
    p2n,            \* the power of two of the while loop of to_csd_i
    csd_string,     \* the argument of longest_repeated_substring
    result,         \* the string longest_repeated_substring returns
    input_width,    \* arguments of generate_csd_multiplier
    max_power,
    verilog_code,   \* the text generate_csd_multiplier returns
    message         \* the message of the error it raises

lcsreVars == <<csd_string, result>>

multiplierVars == <<input_width, max_power, verilog_code, message>>

vars == <<fn, decimal_value, places, nnz, csd, exc, loc, p2n, csd_string, result,
          input_width, max_power, verilog_code, message>>

Init ==
    /\ fn = "none"
    /\ decimal_value = Zero
    /\ places = 0
    /\ nnz = 0
    /\ csd = <<>>
    /\ exc = "none"
    /\ loc = 0
    /\ p2n = Zero
    /\ csd_string = <<>>
    /\ result = <<>>
    /\ input_width = 0
    /\ max_power = 0
    /\ verilog_code = <<>>
    /\ message = NoMessage

Returns(s) == csd' = s /\ exc' = "none"

Raises(e) == csd' = <<>> /\ exc' = e

CallToCsdI ==
    /\ fn = "none"
    /\ \E n \in IntInputs :
        /\ fn' = "to_csd_i"
        /\ decimal_value' = n
        /\ UNCHANGED <<places, nnz, loc, p2n, lcsreVars, multiplierVars>>
        /\ IF n = Zero THEN Returns(<<"0">>)
           ELSE IF StartRaisesI(n) THEN Raises("OverflowError")
           ELSE \E rem \in StartRemI(n) : Returns(to_csd_i(n, rem))

CallToCsdnnzI ==
    /\ fn = "none"
    /\ \E n \in IntInputs, k \in 0..MaxNnz :
        /\ fn' = "to_csdnnz_i"
        /\ decimal_value' = n
        /\ nnz' = k
        /\ UNCHANGED <<places, loc, p2n, lcsreVars, multiplierVars>>
        /\ IF n = Zero THEN Returns(<<"0">>)
           ELSE IF StartRaisesI(n) THEN Raises("OverflowError")
           ELSE \E rem \in StartRemI(n) : Returns(to_csdnnz_i(n, k, rem))

CallToCsd ==
    /\ fn = "none"
    /\ \E f \in FloatInputs, p \in 0..MaxPlaces :
        /\ fn' = "to_csd"
        /\ decimal_value' = f
        /\ places' = p
        /\ UNCHANGED <<nnz, loc, p2n, lcsreVars, multiplierVars>>
        /\ IF StartRaisesF(f) THEN Raises("OverflowError")
           ELSE \E rem \in StartRemF(f) :
                    IF rem > MaxExp THEN Raises("OverflowError")
                    ELSE Returns(to_csd(f, p, rem))

CallPycsdToCsd ==
    /\ fn = "none"
    /\ \E f \in FloatInputs, p \in 0..MaxPlaces :
        /\ fn' = "pycsd.to_csd"
        /\ decimal_value' = f
        /\ places' = p
        /\ UNCHANGED <<nnz, loc, p2n, lcsreVars, multiplierVars>>
        /\ IF f = Zero THEN Returns(<<"0">>)
           ELSE IF PyStartRaises(f) THEN Raises("OverflowError")
           ELSE \E power \in PyStartPower(f) :
                    IF power > MaxExp THEN Raises("OverflowError")
                    ELSE Returns(pycsd_to_csd(f, p, power))

CallToCsdnnz ==
    /\ fn = "none"
    /\ \E f \in FloatInputs, k \in 0..MaxNnz :
        /\ fn' = "to_csdnnz"
        /\ decimal_value' = f
        /\ nnz' = k
        /\ UNCHANGED <<places, loc, p2n, lcsreVars, multiplierVars>>
        /\ IF StartRaisesF(f) THEN Raises("OverflowError")
           ELSE \E rem \in StartRemF(f) :
                    LET r == to_csdnnz(f, k, rem)
                    IN IF r.exc # "none" THEN Raises(r.exc) ELSE Returns(r.csd)

CallToDecimal ==
    /\ fn = "none"
    /\ \E s \in CsdInputs :
        LET r == to_decimal(s)
        IN /\ fn' = "to_decimal"
           /\ csd' = s
           /\ decimal_value' = r.value
           /\ exc' = r.exc
           /\ UNCHANGED <<places, nnz, loc, p2n, lcsreVars, multiplierVars>>

CallToDecimalUsingPow ==
    /\ fn = "none"
    /\ \E s \in CsdInputs :
        LET r == to_decimal_using_pow(s)
        IN /\ fn' = "to_decimal_using_pow"
           /\ csd' = s
           /\ decimal_value' = r.value
           /\ exc' = r.exc
           /\ UNCHANGED <<places, nnz, loc, p2n, lcsreVars, multiplierVars>>

CallToDecimalIntegral ==
    /\ fn = "none"
    /\ \E s \in CsdInputs :
        LET r == to_decimal_integral(s)
        IN /\ fn' = "to_decimal_integral"
           /\ csd' = s
           /\ decimal_value' = r.value
           /\ loc' = r.loc
           /\ exc' = r.exc
           /\ UNCHANGED <<places, nnz, p2n, lcsreVars, multiplierVars>>

CallLongestRepeatedSubstring ==
    /\ fn = "none"
    /\ \E s \in StrInputs :
        /\ fn' = "longest_repeated_substring"
        /\ csd_string' = s
        /\ result' = longest_repeated_substring(s)
        /\ UNCHANGED <<decimal_value, places, nnz, csd, exc, loc, p2n, multiplierVars>>

CallGenerateCsdMultiplier ==
    /\ fn = "none"
    /\ \E s \in MultiplierInputs, n \in 1..MaxWidth, m \in 0..(MaxPower + 1) :
        LET r == generate_csd_multiplier(s, n, m)
        IN /\ fn' = "generate_csd_multiplier"
           /\ csd' = s
           /\ input_width' = n
           /\ max_power' = m
           /\ exc' = r.exc
           /\ message' = r.message
           /\ verilog_code' = r.verilog_code
           /\ UNCHANGED <<decimal_value, places, nnz, loc, p2n, lcsreVars>>

\* to_csd_i step by step, for the arguments that reach the while loop:
\* decimal_value is the remainder the loop works on
EnterToCsdI ==
    /\ fn = "none"
    /\ \E n \in IntInputs :
        /\ n # Zero
        /\ ~StartRaisesI(n)
        /\ \E rem \in StartRemI(n) :
            /\ fn' = "to_csd_i while"
            /\ decimal_value' = n
            /\ p2n' = Pow2(rem)
            /\ csd' = <<>>
            /\ UNCHANGED <<places, nnz, exc, loc, lcsreVars, multiplierVars>>

StepToCsdI ==
    /\ fn = "to_csd_i while"
    /\ Less(One, p2n)
    /\ LET s == CsdIBody([decimal_value |-> decimal_value, p2n |-> p2n,
                          csd |-> csd])
       IN /\ decimal_value' = s.decimal_value
          /\ p2n' = s.p2n
          /\ csd' = s.csd
    /\ UNCHANGED <<fn, places, nnz, exc, loc, lcsreVars, multiplierVars>>

ReturnFromCsdI ==
    /\ fn = "to_csd_i while"
    /\ ~Less(One, p2n)
    /\ fn' = "to_csd_i return"
    /\ UNCHANGED <<decimal_value, places, nnz, csd, exc, loc, p2n, lcsreVars,
                   multiplierVars>>

NextI == CallToCsdI \/ CallToCsdnnzI

NextF == CallToCsd \/ CallToCsdnnz

NextD == CallToDecimal \/ CallToDecimalUsingPow \/ CallToDecimalIntegral

NextL == CallLongestRepeatedSubstring

NextV == CallGenerateCsdMultiplier

NextW == EnterToCsdI \/ StepToCsdI \/ ReturnFromCsdI

NextP == CallToCsd \/ CallPycsdToCsd

Next == NextI \/ NextF \/ NextD \/ NextL \/ NextV \/ NextW \/ NextP

\* the integer encoders
SpecI == Init /\ [][NextI]_vars

\* the fixed-point encoders
SpecF == Init /\ [][NextF]_vars

\* the decoders
SpecD == Init /\ [][NextD]_vars

\* the substring finder
SpecL == Init /\ [][NextL]_vars

\* the Verilog generator
SpecV == Init /\ [][NextV]_vars

\* the two to_csd
SpecP == Init /\ [][NextP]_vars

\* the while loop of to_csd_i
SpecW == Init /\ [][NextW]_vars

Spec == Init /\ [][Next]_vars

\* ------------------------------------------------------------------------
\* Vocabulary of the properties
\* ------------------------------------------------------------------------
MaxLen == 7         \* digit strings compared against have up to MaxLen digits

Digits == {"+", "-", "0"}

DigitStrings == UNION {[1..n -> Digits] : n \in 1..MaxLen}

\* the number of "+" and "-" of a string
Nnz(s) == Cardinality({i \in 1..Len(s) : s[i] \in {"+", "-"}})

NoAdjacentNonzero(s) == \A i \in 1..(Len(s) - 1) : s[i] # "0" => s[i + 1] = "0"

\* the positional value of a point-free digit string: the sum of
\* digit * 2^power, the last digit having power 0
PowersOf(s, c) == {Len(s) - i : i \in {j \in 1..Len(s) : s[j] = c}}

PosValue(s) == Sub(Mk(FALSE, PowersOf(s, "+")), Mk(FALSE, PowersOf(s, "-")))

\* value and weight of every digit string of up to MaxLen digits
DigitStringWeights == {<<PosValue(s), Nnz(s)>> : s \in DigitStrings}

\* the strings in canonical form: first digit non-zero, no two adjacent
\* non-zero digits; those of up to MaxLen - 1 digits and one of 51 digits
CanonStrings ==
    {s \in DigitStrings : Len(s) < MaxLen /\ s[1] # "0" /\ NoAdjacentNonzero(s)}
        \cup {[i \in 1..51 |-> IF i % 2 = 1 THEN "+" ELSE "0"]}

PointAt == CHOOSE i \in 1..Len(csd) : csd[i] = "."

\* ------------------------------------------------------------------------
\* Properties
\* ------------------------------------------------------------------------
\* C1: integer round trip: for every integer n, to_decimal(to_csd_i(n)) is
\* n exactly.
C1_RoundTrip ==
    fn = "to_csd_i" =>
        /\ exc = "none"
        /\ to_decimal(csd) = [exc |-> "none", value |-> decimal_value]

\* C2: for every integer n, to_csd_i(n) has no two consecutive characters
\* that are both non-zero.
C2_NoAdjacent ==
    fn = "to_csd_i" => NoAdjacentNonzero(csd)

\* C3: minimality: for every integer n, no digit string of up to MaxLen
\* digits whose positional value is n has fewer non-zero digits than
\* to_csd_i(n).
C3_Minimal ==
    fn = "to_csd_i" =>
        /\ exc = "none"
        /\ \A p \in DigitStringWeights : p[1] = decimal_value => Nnz(csd) <= p[2]

\* C4: uniqueness: for every string s in canonical form, the encoder gives
\* s back for the value of s: to_csd_i(to_decimal(s)) = s.
C4_Unique ==
    fn = "to_csd_i" =>
        \A s \in CanonStrings :
            to_decimal(s).value = decimal_value => exc = "none" /\ csd = s

\* C5: for every integer n, every float f and every budget k >= 0, k = 0
\* included, to_csdnnz_i(n, k) and to_csdnnz(f, k) have at most k non-zero
\* digits.
C5_Budget ==
    fn \in {"to_csdnnz_i", "to_csdnnz"} => Nnz(csd) <= nnz

\* C6: for every finite f and places >= 1,
\* |to_decimal(to_csd(f, places)) - f| < 2^(1 - places), and < 1 for
\* places = 0.
C6_WithinPrecision ==
    fn = "to_csd" =>
        /\ exc = "none"
        /\ to_decimal(csd).exc = "none"
        /\ Less(Abs(Sub(to_decimal(csd).value, decimal_value)),
                IF places = 0 THEN One ELSE Pow2(1 - places))

\* C7: for every f = m / 2^q with m an integer and q <= places, q = 3 and
\* places = 4 in particular, to_decimal(to_csd(f, places)) and
\* to_decimal_using_pow(to_csd(f, places)) are f exactly.
C7_ExactRoundTrip ==
    (fn = "to_csd" /\ \A i \in decimal_value.bits : i >= -places) =>
        /\ exc = "none"
        /\ to_decimal(csd) = [exc |-> "none", value |-> decimal_value]
        /\ to_decimal_using_pow(csd) = [exc |-> "none", value |-> decimal_value]

\* C8: for every value and places >= 0, to_csd returns a string with
\* exactly one ".", places digits after it and at least one digit before
\* it, a single "0" when |value| < 1; to_csd(0.0, 0) is "0.".
C8_Shape ==
    fn = "to_csd" =>
        /\ exc = "none"
        /\ Cardinality({i \in 1..Len(csd) : csd[i] = "."}) = 1
        /\ Len(csd) - PointAt = places
        /\ PointAt >= 2
        /\ \A i \in 1..Len(csd) : i # PointAt => csd[i] \in Digits
        /\ Less(Abs(decimal_value), One) => SubSeq(csd, 1, PointAt - 1) = <<"0">>
        /\ (decimal_value = Zero /\ places = 0) => csd = <<"0", ".">>

\* C9: sign convention: to_csd_i(n) starts with "+" or "0" for n > 0, with
\* "-" or "0" for n < 0, and is "0" for n = 0.
C9_Sign ==
    fn = "to_csd_i" =>
        /\ exc = "none"
        /\ Less(Zero, decimal_value) => csd[1] \in {"+", "0"}
        /\ Less(decimal_value, Zero) => csd[1] \in {"-", "0"}
        /\ decimal_value = Zero => csd = <<"0">>

\* C10: for every k >= 0, to_csd_i(2^k) has exactly one non-zero digit, a
\* "+", and to_csd_i(-2^k) has exactly one non-zero digit, a "-".
C10_PowerOfTwo ==
    (fn = "to_csd_i" /\ Cardinality(decimal_value.bits) = 1) =>
        /\ exc = "none"
        /\ Nnz(csd) = 1
        /\ \E i \in 1..Len(csd) : csd[i] = (IF decimal_value.neg THEN "-" ELSE "+")

\* ------------------------------------------------------------------------
\* What holds of every call that returns
\* ------------------------------------------------------------------------
\* a call of to_csd_i raises only for an argument beyond the float range
RaisesOnlyBeyondFloatRange ==
    (fn \in {"to_csd_i", "to_csdnnz_i"} /\ exc # "none") =>
        Max(decimal_value.bits) >= MaxExp

\* the string to_csd_i returns has the value of its argument, a minimal
\* number of non-zero digits and the sign of its argument
ReturnedStringI ==
    (fn = "to_csd_i" /\ exc = "none") =>
        /\ PosValue(csd) = decimal_value
        /\ \A p \in DigitStringWeights : p[1] = decimal_value => Nnz(csd) <= p[2]
        /\ Less(Zero, decimal_value) => csd[1] \in {"+", "0"}
        /\ Less(decimal_value, Zero) => csd[1] \in {"-", "0"}

\* for an argument of at most MaxN in magnitude to_csd_i returns the
\* canonical string
ReturnedStringSmallI ==
    (fn = "to_csd_i" /\ decimal_value \in {OfInt(i) : i \in -MaxN..MaxN}) =>
        /\ exc = "none"
        /\ NoAdjacentNonzero(csd)
        /\ decimal_value # Zero => csd[1] # "0"

\* a positive budget bounds the non-zero digits
PositiveBudget ==
    (fn \in {"to_csdnnz_i", "to_csdnnz"} /\ nnz > 0) => Nnz(csd) <= nnz

\* the string to_csd returns decodes to within 2^(1 - places) of its
\* argument, and to the argument when that has no bit below 2^-places
ReturnedStringF ==
    (fn = "to_csd" /\ exc = "none") =>
        /\ to_decimal(csd).exc = "none"
        /\ Less(Abs(Sub(to_decimal(csd).value, decimal_value)),
                IF places = 0 THEN One ELSE Pow2(1 - places))
        /\ (\A i \in decimal_value.bits : i >= -places) =>
               /\ to_decimal(csd).value = decimal_value
               /\ to_decimal_using_pow(csd).value = decimal_value
        /\ Len(csd) - PointAt = places

\* ------------------------------------------------------------------------
\* Properties of the decoders
\* ------------------------------------------------------------------------
PointIndices(s) == {i \in 1..Len(s) : s[i] = "."}

IsDigit(c) == c \in Digits

\* the digits and at most one radix point
WellFormed(s) ==
    /\ \A i \in 1..Len(s) : s[i] \in Digits \cup {"."}
    /\ Cardinality(PointIndices(s)) <= 1

\* the positional sum of a well-formed string, the digit left of the point
\* having power 0
PointValue(s) ==
    LET digits == SelectSeq(s, IsDigit)
        after == IF PointIndices(s) = {} THEN 0
                 ELSE Len(s) - (CHOOSE i \in PointIndices(s) : TRUE)
    IN Scale(PosValue(digits), -after)

HasUnknown(s) == \E i \in 1..Len(s) : s[i] \notin Digits \cup {"."}

\* 28.5
TwentyEightAndAHalf == Scale(OfInt(57), -1)

\* the three strings that the tests decode to 28.5
LenientProbes ==
    {<<"+", "X", "0", "-", "0", "0", ".", "+">>,
     <<"+", "0", "0", "-", "0", "0", ".", "+", "X">>,
     <<"+", "X", "0", "-", "X", "0", ".", "+", "X">>}

\* C11: decoder agreement: for every well-formed string, to_decimal and
\* to_decimal_using_pow return the same number, and it is the positional
\* sum of the digits.
C11_DecodersAgree ==
    (fn \in {"to_decimal", "to_decimal_using_pow"} /\ WellFormed(csd)) =>
        /\ exc = "none"
        /\ to_decimal(csd) = to_decimal_using_pow(csd)
        /\ decimal_value = PointValue(csd)

\* C12: lenient decoding: given a string with a character that is no digit
\* and no radix point, to_decimal and to_decimal_using_pow do not fail and
\* return a number, 28.5 for "+X0-00.+", "+00-00.+X" and "+X0-X0.+X".
C12_Lenient ==
    (fn \in {"to_decimal", "to_decimal_using_pow"} /\ HasUnknown(csd)) =>
        /\ exc = "none"
        /\ csd \in LenientProbes => decimal_value = TwentyEightAndAHalf

FirstPoint(s) ==
    IF PointIndices(s) = {} THEN 0
    ELSE CHOOSE i \in PointIndices(s) : \A j \in PointIndices(s) : i <= j

\* the characters before the first radix point
IntegralPart(s) ==
    IF FirstPoint(s) = 0 THEN s ELSE SubSeq(s, 1, FirstPoint(s) - 1)

Occurrences(r, s) ==
    {i \in 1..(Len(s) - Len(r) + 1) : SubSeq(s, i, i + Len(r) - 1) = r}

\* r occurs twice in s at start positions at least Len(r) apart
RepeatsApart(r, s) ==
    \E i, j \in Occurrences(r, s) : j - i >= Len(r)

\* some substring of length n occurs twice in s without overlap
HasRepeatOfLen(n, s) ==
    \E i \in 1..(Len(s) - n + 1) : RepeatsApart(SubSeq(s, i, i + n - 1), s)

Reversed(s) == [i \in 1..Len(s) |-> s[Len(s) + 1 - i]]

\* C14: validity: the result of longest_repeated_substring(s) is a
\* substring of s, and when it is not empty it occurs at two start
\* positions i < j with j - i >= its length, so its length is at most
\* len(s) div 2.
C14_Valid ==
    fn = "longest_repeated_substring" =>
        IF result = <<>> THEN TRUE
        ELSE /\ Occurrences(result, csd_string) # {}
             /\ RepeatsApart(result, csd_string)
             /\ Len(result) <= Len(csd_string) \div 2

\* a call whose input repeats a longer substring with overlap only: the
\* overlap test decided the result
C14_Witness ==
    /\ fn = "longest_repeated_substring"
    /\ result # <<>>
    /\ \E i \in 1..(Len(csd_string) - Len(result)) :
           Cardinality(Occurrences(SubSeq(csd_string, i, i + Len(result)),
                                   csd_string)) >= 2

\* C15: maximality: no substring longer than the result of
\* longest_repeated_substring(s) occurs twice in s without overlap; the
\* result is empty iff no character occurs twice in s; and the result has
\* the same length for s and for s reversed.
C15_Maximal ==
    fn = "longest_repeated_substring" =>
        /\ \A n \in (Len(result) + 1)..Len(csd_string) :
               ~HasRepeatOfLen(n, csd_string)
        /\ result = <<>> <=>
               \A i, j \in 1..Len(csd_string) :
                   csd_string[i] = csd_string[j] => i = j
        /\ Len(result) = Len(longest_repeated_substring(Reversed(csd_string)))

\* a call that returned two or more characters where the reversed input
\* gives another string of that length
C15_Witness ==
    /\ fn = "longest_repeated_substring"
    /\ Len(result) >= 2
    /\ longest_repeated_substring(Reversed(csd_string)) # result
    /\ HasRepeatOfLen(Len(result) - 1, csd_string)

\* ------------------------------------------------------------------------
\* Properties of the Verilog generator
\* ------------------------------------------------------------------------
BadLength == Len(csd) # max_power + 1

BadCharacter == \E i \in 1..Len(csd) : csd[i] \notin Digits

\* C16: input validation: generate_csd_multiplier fails and emits no text
\* whenever len(csd) # max_power + 1, the message reporting the length and
\* max_power, or a character of csd is none of '+', '-', '0'; a string
\* with both defects reports the length.
C16_Validation ==
    (fn = "generate_csd_multiplier" /\ (BadLength \/ BadCharacter)) =>
        /\ exc = "ValueError"
        /\ verilog_code = <<>>
        /\ message = IF BadLength
                     THEN Piece("CSD length {} doesn't match max_power={} (should be max_power+1)",
                                <<Len(csd), max_power>>)
                     ELSE Piece("CSD string can only contain '+', '-', or '0'", <<>>)

\* a call with a wrong length and a wrong character
C16_Witness ==
    /\ fn = "generate_csd_multiplier"
    /\ BadLength
    /\ BadCharacter
    /\ Len(csd) >= 2
    /\ exc = "ValueError"

\* the pieces of the expression assigned to result: those between
\* "assign result = " and ";"
AssignedExpr ==
    LET from == CHOOSE i \in 1..Len(verilog_code) :
                    verilog_code[i].text = "\n    assign result = "
        to == CHOOSE i \in 1..Len(verilog_code) : verilog_code[i].text = ";"
    IN SubSeq(verilog_code, from + 1, to - 1)

\* the factor of x in an expression read as a signed sum of x * 2^shift
FactorOf(expr) ==
    LET Shifts(texts) ==
            {expr[i].nums[1] : i \in {j \in 1..Len(expr) : expr[j].text \in texts}}
    IN Sub(Mk(FALSE, Shifts({"x_shift{}", " + x_shift{}"})),
           Mk(FALSE, Shifts({" - x_shift{}"})))

\* C17: functional correctness: for every valid string c with
\* len(c) = max_power + 1, the expression assigned to result, read as a
\* signed sum of x * 2^shift terms, is x * value(c).
C17_Product ==
    (fn = "generate_csd_multiplier" /\ ~BadLength /\ ~BadCharacter) =>
        /\ exc = "none"
        /\ IF Nnz(csd) = 0
           THEN \E i \in 1..Len(verilog_code) :
                    verilog_code[i].text = "\n    assign result = 0;"
           ELSE FactorOf(AssignedExpr) = PosValue(csd)

\* C18: all-zero multiplier: for every max_power m >= 0 and input width,
\* generate_csd_multiplier("0" * (m + 1), n, m) emits "assign result = 0;"
\* and no x_shift at all.
C18_AllZero ==
    (fn = "generate_csd_multiplier" /\ ~BadLength
        /\ \A i \in 1..Len(csd) : csd[i] = "0") =>
        /\ exc = "none"
        /\ \E i \in 1..Len(verilog_code) :
               verilog_code[i].text = "\n    assign result = 0;"
        /\ \A i \in 1..Len(verilog_code) :
               verilog_code[i].text \notin
                   {WireText, "x_shift{}", " + x_shift{}", " - x_shift{}",
                    "\n\n    // Create shifted versions of input"}

\* a call with two or more zeros and nothing else
C18_Witness ==
    /\ fn = "generate_csd_multiplier"
    /\ exc = "none"
    /\ max_power >= 1
    /\ Nnz(csd) = 0
    /\ Len(verilog_code) = 4

\* ------------------------------------------------------------------------
\* Properties of the encoders, continued
\* ------------------------------------------------------------------------
Encoders == {"to_csd_i", "to_csd", "to_csdnnz_i", "to_csdnnz"}

\* C19: the encoders are total: for every integer n, finite f, places >= 0
\* and nnz >= 0, each of to_csd_i, to_csd, to_csdnnz_i and to_csdnnz
\* returns a string and never ends in an error; the integer loops run
\* exactly rem iterations, one digit each.
C19_Total ==
    fn \in Encoders =>
        /\ exc = "none"
        /\ (fn \in {"to_csd_i", "to_csdnnz_i"} /\ decimal_value # Zero) =>
               Len(csd) \in StartRemI(decimal_value)

\* C20: adjacency in the fixed-point encoder: for every f and every
\* places >= 0, to_csd(f, places) with the radix point removed has no two
\* consecutive non-zero digits.
C20_NoAdjacentFixed ==
    fn = "to_csd" => NoAdjacentNonzero(SelectSeq(csd, IsDigit))

\* ------------------------------------------------------------------------
\* Relations between calls of the encoders
\* ------------------------------------------------------------------------
\* s with the digits after its k-th non-zero digit replaced by "0"
Truncated(s, k) ==
    [i \in 1..Len(s) |->
        IF Nnz(SubSeq(s, 1, i - 1)) < k THEN s[i] ELSE "0"]

\* s with "+" and "-" exchanged
Swapped(s) ==
    [i \in 1..Len(s) |->
        IF s[i] = "+" THEN "-" ELSE IF s[i] = "-" THEN "+" ELSE s[i]]

\* the exponent a returned call of to_csd started the loop with
RemOfCsd == IF Less(Abs(decimal_value), One) THEN 0 ELSE PointAt - 1

\* C21: budget exhaustion: for every integer n # 0 and k >= 1,
\* to_csdnnz_i(n, k) has the length of to_csd_i(n), agrees with it up to
\* and including its k-th non-zero digit and is "0" at every later
\* position.
C21_BudgetPrefix ==
    (fn = "to_csdnnz_i" /\ decimal_value # Zero /\ nnz >= 1) =>
        /\ exc = "none"
        /\ Len(csd) \in StartRemI(decimal_value)
        /\ csd = Truncated(to_csd_i(decimal_value, Len(csd)), nnz)

\* C22: bounded approximation error: for every integer n and k >= 1,
\* |to_decimal(to_csdnnz_i(n, k)) - n| / max(1, |n|) < 0.5, that is,
\* twice the error is below max(1, |n|).
C22_ErrorBelowHalf ==
    (fn = "to_csdnnz_i" /\ nnz >= 1) =>
        /\ exc = "none"
        /\ to_decimal(csd).exc = "none"
        /\ Less(Scale(Abs(Sub(to_decimal(csd).value, decimal_value)), 1),
                IF decimal_value = Zero THEN One ELSE Abs(decimal_value))

\* C23: more places never hurts: for every f = m/8 and places p >= 1,
\* to_csd(f, p - 1) is a prefix of to_csd(f, p) and the string of p places
\* decodes no farther from f than the string of p - 1 places.
C23_MorePlaces ==
    (fn = "to_csd" /\ places >= 1 /\ \A i \in decimal_value.bits : i >= -3) =>
        /\ exc = "none"
        /\ LET fewer == to_csd(decimal_value, places - 1, RemOfCsd)
           IN /\ fewer = SubSeq(csd, 1, Len(csd) - 1)
              /\ ~Less(Abs(Sub(to_decimal(fewer).value, decimal_value)),
                       Abs(Sub(to_decimal(csd).value, decimal_value)))

\* C24: negation symmetry: for every integer n # 0, to_csd_i(-n) is
\* to_csd_i(n) with "+" and "-" exchanged, and to_csd(-f, places) is
\* to_csd(f, places) with "+" and "-" exchanged.
C24_Negation ==
    /\ (fn = "to_csd_i" /\ decimal_value # Zero) =>
           /\ exc = "none"
           /\ Len(csd) \in StartRemI(Neg(decimal_value))
           /\ to_csd_i(Neg(decimal_value), Len(csd)) = Swapped(csd)
    /\ fn = "to_csd" =>
           /\ exc = "none"
           /\ RemOfCsd \in StartRemF(Neg(decimal_value))
           /\ to_csd(Neg(decimal_value), places, RemOfCsd) = Swapped(csd)

\* ------------------------------------------------------------------------
\* Properties of the Verilog generator, continued
\* ------------------------------------------------------------------------
\* the indices of the non-zero digits of csd, in string order
NonzeroIndices ==
    LET IsNonzero(i) == csd[i] \in {"+", "-"}
    IN SelectSeq([i \in 1..Len(csd) |-> i], IsNonzero)

\* the power of the digit at index i; index i here is index i - 1 of the
\* source
PowerAt(i) == max_power - (i - 1)

\* the wire declarations of the text
Wires ==
    LET IsWire(piece) == piece.text = "\n    wire signed [{}:0] x_shift{} = x <<< {};"
    IN SelectSeq(verilog_code, IsWire)

C26_RejectsSecondPoint ==
    (fn \in {"to_decimal", "to_decimal_using_pow"}
        /\ Cardinality(PointIndices(csd)) >= 2) => exc # "none"

\* ------------------------------------------------------------------------
\* Properties of the while loop of to_csd_i
\* ------------------------------------------------------------------------
InLoopOfCsdI == fn \in {"to_csd_i while", "to_csd_i return"}

\* C27: remainder bound: for every non-zero integer, at the head of every
\* iteration and at the exit of the loop 3 * |remainder| <= 2 * p2n, so
\* the remainder is 0 at the exit; after an iteration that wrote "+" or
\* "-" the bound is 3 * |remainder| <= p2n, so the digit before it in the
\* string is "0".
C27_RemainderBound ==
    InLoopOfCsdI =>
        /\ ~Less(Shl1(p2n), Times3(Abs(decimal_value)))
        /\ fn = "to_csd_i return" => decimal_value = Zero
        /\ (csd # <<>> /\ csd[Len(csd)] # "0") =>
               /\ ~Less(p2n, Times3(Abs(decimal_value)))
               /\ Len(csd) >= 2 => csd[Len(csd) - 1] = "0"

\* the minimal exponent rem with 2^rem >= 1.5 * |n|, for n # 0
ExactRem(n) ==
    LET t == Times3(Abs(n))
        E == Max(t.bits)
    IN IF t = Pow2(E) THEN E - 1 ELSE E

\* C28: exact start exponent: for every non-zero integer n, to_csd_i and
\* to_csdnnz_i return, and the rem they start from (the length of the
\* string they return) is the minimal exponent with 2^rem >= 1.5 * |n|.
C28_ExactRem ==
    (fn \in {"to_csd_i", "to_csdnnz_i"} /\ decimal_value # Zero) =>
        /\ exc = "none"
        /\ Len(csd) = ExactRem(decimal_value)

\* ------------------------------------------------------------------------
\* The two fixed-point encoders
\* ------------------------------------------------------------------------
\* the start exponent of both to_csd is the same whatever the rounding of
\* math.log
ExponentDetermined ==
    /\ Cardinality(StartRemF(decimal_value)) = 1
    /\ PyStartPower(decimal_value) = StartRemF(decimal_value)

\* C29: the two to_csd agree: for every non-zero f and places >= 1, a
\* string returned by csdigit's to_csd is the string pycsd's to_csd
\* returns for the same arguments, and the other way round (stated for
\* the arguments whose start exponent is determined).
C29_VariantsAgree ==
    (decimal_value # Zero /\ places >= 1 /\ exc = "none"
     /\ ExponentDetermined) =>
        /\ fn = "to_csd" =>
               /\ ~PyStartRaises(decimal_value)
               /\ RemOfCsd \in PyStartPower(decimal_value)
               /\ pycsd_to_csd(decimal_value, places, RemOfCsd) = csd
        /\ fn = "pycsd.to_csd" =>
               /\ ~StartRaisesF(decimal_value)
               /\ RemOfCsd \in StartRemF(decimal_value)
               /\ to_csd(decimal_value, places, RemOfCsd) = csd

\* ------------------------------------------------------------------------
\* The tie-break of the substring finder
\* ------------------------------------------------------------------------
\* the greatest length of a substring that occurs twice in s without
\* overlap, 0 when there is none
MaxRepeatLen(s) ==
    Max({0} \cup {n \in 1..Len(s) : HasRepeatOfLen(n, s)})

\* the start positions of the substrings of length n that occur again in s
\* at least n later
CandidateStarts(n, s) ==
    {i \in 1..(Len(s) - n + 1) :
        \E j \in Occurrences(SubSeq(s, i, i + n - 1), s) : j - i >= n}

Min(S) == CHOOSE x \in S : \A y \in S : x <= y

\* C30: tie-break: among the substrings of maximal length that repeat
\* without overlap, longest_repeated_substring returns the one whose first
\* occurrence ends earliest; index is the row at which that occurrence
\* ends, and the result is s[index - length : index].
C30_TieBreak ==
    (fn = "longest_repeated_substring" /\ result # <<>>) =>
        LET length == MaxRepeatLen(csd_string)
            first == Min(CandidateStarts(length, csd_string))
            table == LcsreTable(csd_string)
        IN /\ table.result_length = length
           /\ table.index = first + length - 1
           /\ result = SubSeq(csd_string, first, first + length - 1)
           /\ result = SubSeq(csd_string, table.index - length + 1, table.index)

\* a call on a string in which another substring of the maximal length,
\* two characters or more, repeats without overlap ("banana": "na")
C30_Witness ==
    /\ fn = "longest_repeated_substring"
    /\ Len(result) >= 2
    /\ \E i \in CandidateStarts(Len(result), csd_string) :
           SubSeq(csd_string, i, i + Len(result) - 1) # result

====
